---- MODULE Spec2Model ----
(***************************************************************************)
(* Model of the asset-extraction workflow of findJobAgent:                 *)
(*   - ChatService.send_message_stream (the per-turn entry point),         *)
(*   - the parent graph (entry_point_router, asset_extraction_router),     *)
(*   - the chat_and_profile subgraph (capture phase),                      *)
(*   - the proposal_and_refine subgraph (cursor-driven review phase),      *)
(*   - the two tables the review phase writes (raw_observations,           *)
(*     profile_sections).                                                  *)
(* One action per graph node; the conditional edge that follows a node is  *)
(* evaluated inside the node's action (pc' is the edge's result).          *)
(*                                                                         *)
(* Text is modelled as a sequence of one-character strings so that         *)
(* lower(), strip(), == and the substring test `in` are computed, not      *)
(* assumed.  Characters outside ASCII are written as code-point tokens,    *)
(* e.g. "<786E>" "<8BA4>" for the two characters of the confirm keyword.   *)
(***************************************************************************)
EXTENDS Integers, Sequences, FiniteSets, TLC

(***************************************************************************)
(* Bounds of the model.                                                    *)
(***************************************************************************)
MaxTurns == 3
MaxDrafts == 2
MaxStoreRows == 5     \* rows up to which another session adds observations

(***************************************************************************)
(* Program constants.                                                      *)
(***************************************************************************)
\* profiler_node: is_ready_to_refine = new_session_count >= 10
ReadyThreshold == 10
\* should_save_observation(min_length = 5)
MinLength == 5
\* id of the user the session belongs to, and of some other user
OwnerId == 1
OtherId == 2

(***************************************************************************)
(* Strings.                                                                *)
(***************************************************************************)
Whitespace == {" ", "\t", "\n"}

\* str.lower() on one character
LowerChar(c) ==
  CASE c = "C" -> "c" [] c = "D" -> "d" [] c = "E" -> "e" [] c = "I" -> "i"
    [] c = "K" -> "k" [] c = "O" -> "o" [] c = "P" -> "p" [] c = "R" -> "r"
    [] c = "S" -> "s" [] c = "T" -> "t" [] c = "Y" -> "y"
    [] OTHER -> c

\* str.lower()
Lower(s) == [i \in 1..Len(s) |-> LowerChar(s[i])]

RECURSIVE LStrip(_)
LStrip(s) == IF s # <<>> /\ Head(s) \in Whitespace THEN LStrip(Tail(s)) ELSE s

RECURSIVE RStrip(_)
RStrip(s) ==
  IF s # <<>> /\ s[Len(s)] \in Whitespace THEN RStrip(SubSeq(s, 1, Len(s) - 1)) ELSE s

\* str.strip()
Strip(s) == RStrip(LStrip(s))

\* `kw in s` for strings
Contains(s, kw) ==
  \E i \in 0..(Len(s) - Len(kw)) : SubSeq(s, i + 1, i + Len(kw)) = kw

\* literals of the source
KwSkip == <<"s", "k", "i", "p">>
KwOk == <<"o", "k">>
KwQueren == <<"<786E>", "<8BA4>">>
KwRetry == <<"r", "e", "t", "r", "y">>
KwChongshi == <<"<91CD>", "<8BD5>">>
KwEdit == <<"e", "d", "i", "t">>
KwConfirm == <<"c", "o", "n", "f", "i", "r", "m">>

\* the texts a user types in the model
TxtOkPadded == <<" ", "O", "K", "\n">>
TxtSkipPlease == KwSkip \o <<" ">> \o <<"p", "l", "s">>
TxtNoRetry == <<"n", "o", " ", "R", "e", "t", "r", "y">>
TxtEditPlease == <<"e", "d", "i", "t", " ", "p", "l", "s">>
TxtEditPadded == <<" ", "E", "d", "i", "t", " ">>
TxtOkSave == <<"O", "K", ",", " ", "b", "a", "o", "c", "u", "n">>

UserTexts ==
  { TxtOkPadded, KwConfirm, KwSkip, TxtSkipPlease, KwRetry, TxtNoRetry,
    TxtEditPadded, TxtEditPlease,
    TxtOkSave }

(***************************************************************************)
(* Optional values (`None` or a value) are sequences of length 0 or 1.     *)
(***************************************************************************)
None == <<>>
Some(v) == <<v>>

(***************************************************************************)
(* Messages.  The channel `messages` has the add_messages reducer: the     *)
(* list a node returns is appended (every message of the program carries a *)
(* fresh id), so the channel only grows.  The program reads three things   *)
(* from it: whether it is empty, messages[-1], and the last HumanMessage.  *)
(* The channel is represented by these: `last` is None iff it is empty.    *)
(***************************************************************************)
HumanMessage(text) == [type |-> "human", content |-> text]
AIMessage(tag) == [type |-> "ai", content |-> <<tag>>]

NoMessages == [last |-> None, last_human |-> None]

RECURSIVE add_messages(_, _)
add_messages(left, right) ==
  IF right = <<>> THEN left
  ELSE add_messages(
         [last |-> Some(Head(right)),
          last_human |-> IF Head(right).type = "human" THEN Some(Head(right))
                         ELSE left.last_human],
         Tail(right))

(***************************************************************************)
(* Tables.                                                                 *)
(*  raw_observations: sequence of rows, a row's id is its index.           *)
(*  profile_sections: one row or none per section key of the owner.        *)
(*    A row's content is a JSON dict; has_drafts says whether the dict has *)
(*    the key "drafts".                                                    *)
(***************************************************************************)
SectionKeys == {"skills", "work_experience", "behavioral_traits", "career_potential"}

NoRow == [exists |-> FALSE, has_drafts |-> FALSE, drafts |-> <<>>]
\* ProfileSection(content={}) as create_default_profile_sections writes it
EmptyRow == [exists |-> TRUE, has_drafts |-> FALSE, drafts |-> <<>>]

\* init_db: the default user gets the default sections, without career_potential
create_default_profile_sections ==
  [k \in SectionKeys |-> IF k = "career_potential" THEN NoRow ELSE EmptyRow]

\* save_observation_to_l1: a new row is pending
PendingRow(uid) == [user_id |-> uid, status |-> "pending"]

\* a row an earlier session left with a status other than pending
RejectedRow(uid) == [user_id |-> uid, status |-> "rejected"]

\* the observation tables a session can find at its start
InitialTables ==
  { <<>>,
    <<PendingRow(OwnerId), PendingRow(OtherId), PendingRow(OwnerId),
      RejectedRow(OwnerId)>> }

(***************************************************************************)
(* Drafts (ProfileItemSchema).  Section names are the four literals of     *)
(* _map_section_name_to_key, written in pinyin; any other name is unknown. *)
(***************************************************************************)

_map_section_name_to_key(section_name) ==
  CASE section_name = "jineng" -> "skills"
    [] section_name = "jingli" -> "work_experience"
    [] section_name = "tezhi" -> "behavioral_traits"
    [] section_name = "pianhao" -> "career_potential"
    [] OTHER -> "career_potential"

ProfileItemSchema(content, tags, ids, section) ==
  [standard_content |-> content, tags |-> tags, source_l1_ids |-> ids,
   section_name |-> section]

\* what the Summarization Adapter can return for one draft
ProposedDrafts ==
  { ProfileItemSchema("proposed", <<>>, <<1>>, "jineng"),
    ProfileItemSchema("proposed", <<>>, <<1, 2, 3>>, "pianhao") }

RECURSIVE DraftLists(_)
DraftLists(n) ==
  IF n = 0 THEN { <<>> }
  ELSE LET shorter == DraftLists(n - 1)
       IN shorter \cup { Append(l, d) : l \in { x \in shorter : Len(x) = n - 1 },
                                        d \in ProposedDrafts }

\* what the Refinement Adapter can return
RefinedOutputs ==
  { ProfileItemSchema("refined", <<"tag">>, <<2, 3>>, "unknown") }

SeqToSet(s) == { s[i] : i \in 1..Len(s) }

(***************************************************************************)
(* State.                                                                  *)
(***************************************************************************)
VARIABLES
  \* ChatService / checkpointer
  turns,              \* number of send_message_stream calls so far
  running,            \* a graph.stream call is executing
  pc,                 \* state.next: the node to run, "END" when none
  resume,             \* the Command(resume=...) payload not yet consumed
  \* AssetExtractionState / ChatAndProfileState
  messages,
  l1_observations_summary,
  last_turn_analysis,
  session_new_observation_count,
  last_user_message,
  \* EditorState
  raw_materials,
  current_drafts,
  active_index,
  save_error,
  \* database
  raw_observations,
  profile_sections,
  \* history variables (not program state)
  marks,              \* per observation id: committed PROMOTED assignments in this phase
  appended,           \* cursor positions whose payload a commit of this phase made durable
  yielded,            \* what send_message_stream yielded in the newest turn, in order
  other_session,      \* a second thread of the same user: the raw_materials its
                      \* review phase holds and the ids its commit set to promoted
  turn_kind           \* how the current turn was dispatched: "none", "fresh", "resume";
                      \* "raised" once it left send_message_stream by an exception

chat_vars == <<l1_observations_summary, last_turn_analysis,
               session_new_observation_count, last_user_message>>
editor_vars == <<raw_materials, current_drafts, active_index, save_error>>
db_vars == <<raw_observations, profile_sections>>
vars == <<turns, running, pc, resume, messages, chat_vars, editor_vars, db_vars,
          marks, appended, turn_kind, yielded, other_session>>

\* get_existing_observations_summary returns this marker when nothing is recorded
EMPTY_USER_PROFILE_SNAPSHOT == <<0>>

Init ==
  /\ turns = 0
  /\ running = FALSE
  /\ pc = "END"
  /\ resume = None
  /\ messages = NoMessages
  /\ l1_observations_summary = <<>>
  /\ last_turn_analysis = None
  /\ session_new_observation_count = 0
  /\ last_user_message = None
  /\ raw_materials = <<>>
  /\ current_drafts = <<>>
  /\ active_index = 0
  /\ save_error = None
  /\ raw_observations \in InitialTables
  /\ profile_sections = create_default_profile_sections
  /\ marks = [i \in 1..Len(raw_observations) |-> 0]
  /\ appended = <<>>
  /\ turn_kind = "none"
  /\ yielded = <<>>
  /\ other_session = [raw_materials |-> <<>>, promoted |-> {}]

(***************************************************************************)
(* Conditional edges.  active_index is 0-based as in the source; the       *)
(* draft at the cursor is current_drafts[active_index + 1] here.           *)
(***************************************************************************)
route_scheduler_inclusive(idx, drafts) ==
  IF idx <= Len(drafts) THEN "human_node" ELSE "END"

route_scheduler(idx, drafts) ==
  IF idx < Len(drafts) THEN "human_node" ELSE "END"

route_after_saver_retries(err, idx, drafts) ==
  IF err # None THEN "single_saver_node" ELSE route_scheduler(idx, drafts)

route_after_saver(err, idx, drafts) ==
  IF err # None THEN "human_node" ELSE route_scheduler(idx, drafts)

\* error-recovery branch: any(keyword in content for keyword in retry_keywords)
IsRetry(content) == Contains(content, KwRetry) \/ Contains(content, KwChongshi)

IsSkip_substring(content) == Contains(content, KwSkip)

\* normal branch: content_trimmed == "skip"
IsSkip(content) == Strip(content) = KwSkip

IsConfirm_substring(content) ==
  Contains(content, KwOk) \/ Contains(content, KwQueren)

\* normal branch: content_trimmed in ("ok", "确认")
IsConfirm(content) == Strip(content) \in {KwOk, KwQueren}

route_user_intent(msgs, err) ==
  IF msgs.last = None THEN "refiner_node"
  ELSE LET content == Lower(msgs.last[1].content)
       IN IF err # None
          THEN IF IsRetry(content) THEN "single_saver_node" ELSE "skipper_node"
          ELSE IF IsSkip(content) THEN "skipper_node"
               ELSE IF IsConfirm(content) THEN "single_saver_node"
               ELSE "refiner_node"

entry_point_router_contains(msgs) ==
  IF msgs.last = None THEN "chat_and_profile"
  ELSE IF msgs.last_human = None THEN "chat_and_profile"
  ELSE IF Contains(Lower(msgs.last_human[1].content), KwEdit)
       THEN "proposal_and_refine"
  ELSE "chat_and_profile"

\* entry_point_router: the last HumanMessage, stripped and lowered, equals "edit"
LastHuman(msgs) == msgs.last_human

entry_point_router(msgs) ==
  IF msgs.last = None THEN "chat_and_profile"
  ELSE IF LastHuman(msgs) = None THEN "chat_and_profile"
  ELSE IF Lower(Strip(LastHuman(msgs)[1].content)) = KwEdit THEN "proposal_and_refine"
  ELSE "chat_and_profile"

asset_extraction_router_none_enters(analysis) ==
  IF analysis = None THEN "enter_refinement"
  ELSE IF analysis[1].is_ready_to_refine THEN "enter_refinement"
  ELSE "end"

asset_extraction_router_new_info(analysis) ==
  IF analysis = None THEN "end"
  ELSE IF analysis[1].has_new_info THEN "enter_refinement"
  ELSE "end"

asset_extraction_router(analysis) ==
  IF analysis = None THEN "end"
  ELSE IF analysis[1].is_ready_to_refine THEN "enter_refinement"
  ELSE "end"

has_interrupt_always(next) == TRUE

has_interrupt_never(next) == FALSE

\* ChatService: has_interrupt = bool(state.next)
has_interrupt(next) == next # "END"

(***************************************************************************)
(* The end of a node: the next node is scheduled; when there is none the   *)
(* stream ends and send_message_stream returns.                            *)
(***************************************************************************)
Goto(next) ==
  /\ pc' = next
  /\ running' = (next # "END")
  /\ turn_kind' = IF next = "END" THEN "none" ELSE turn_kind

\* A turn that is not a resume starts without EditorState: the state of a
\* finished proposal_and_refine run is not kept, and the subgraph is invoked
\* with a state that has only `messages`.
NoEditorState ==
  /\ raw_materials' = <<>>
  /\ current_drafts' = <<>>
  /\ active_index' = 0
  /\ save_error' = None
  /\ marks' = [i \in 1..Len(raw_observations) |-> 0]
  /\ appended' = <<>>

(***************************************************************************)
(* ChatService.send_message_stream                                         *)
(***************************************************************************)
\* process_event on a `values` event of the parent graph: the newest message
\* is yielded when it is an AIMessage that was not handled before.  Events
\* are emitted when a node of the parent graph (a whole subgraph) has
\* finished, not when proposal_and_refine stops in interrupt().
process_event(msgs, out) ==
  IF msgs.last # None /\ msgs.last[1].type = "ai"
       /\ msgs.last[1].content \notin SeqToSet(out)
  THEN Append(out, msgs.last[1].content)
  ELSE out

\* state.next is non-empty: Command(resume={"messages": [HumanMessage]}) is
\* streamed and the checkpointed run continues where it stopped.
SendResume(text) ==
  /\ resume' = Some(<<HumanMessage(text)>>)
  /\ UNCHANGED <<pc, messages, editor_vars, marks, appended>>

\* state.next is empty: the graph is streamed from START with the new message;
\* the edge from START is entry_point_router.
SendFresh(text) ==
  /\ messages' = add_messages(messages, <<HumanMessage(text)>>)
  /\ pc' = IF entry_point_router(messages') = "proposal_and_refine"
           THEN "editor_loader_node" ELSE "profile_loader_node"
  /\ resume' = None
  /\ NoEditorState

send_message_stream ==
  /\ ~running /\ turns < MaxTurns
  /\ turns' = turns + 1
  /\ running' = TRUE
  /\ turn_kind' = IF pc = "END" THEN "fresh" ELSE "resume"
  /\ yielded' = <<>>
  /\ UNCHANGED other_session
  /\ \E text \in UserTexts :
       IF has_interrupt(pc) THEN SendResume(text) ELSE SendFresh(text)
  /\ UNCHANGED <<chat_vars, db_vars>>

(***************************************************************************)
(* chat_and_profile subgraph (capture phase)                               *)
(***************************************************************************)
\* get_existing_observations_summary: all observations of the user, any status
OwnerObservationIds(table, uid) ==
  { i \in 1..Len(table) : table[i].user_id = uid }

RECURSIVE IdsInOrder(_, _)
\* the ids of set `ids` below or at n, ascending
IdsInOrder(ids, n) ==
  IF n = 0 THEN <<>>
  ELSE IF n \in ids THEN Append(IdsInOrder(ids, n - 1), n)
  ELSE IdsInOrder(ids, n - 1)

LoadedSummary_no_default(table, uid, read_ok) ==
  IF read_ok THEN IdsInOrder(OwnerObservationIds(table, uid), Len(table))
  ELSE <<>>

\* profile_loader_node: the summary get_existing_observations_summary built,
\* or the marker when it reported has_existing = False (no row, or the read
\* failed)
LoadedSummary(table, uid, read_ok) ==
  LET ids == OwnerObservationIds(table, uid)
  IN IF read_ok /\ ids # {}
     THEN IdsInOrder(ids, Len(table))
     ELSE EMPTY_USER_PROFILE_SNAPSHOT

profile_loader_node ==
  /\ running /\ pc = "profile_loader_node"
  /\ \E read_ok \in BOOLEAN :
       l1_observations_summary' = LoadedSummary(raw_observations, OwnerId, read_ok)
  /\ Goto("chat_node")
  /\ UNCHANGED <<other_session, yielded, turns, resume, messages, last_turn_analysis,
                 session_new_observation_count, last_user_message,
                 editor_vars, db_vars, marks, appended>>

chat_node ==
  /\ running /\ pc = "chat_node"
  /\ IF messages.last = None
     THEN /\ messages' = add_messages(messages, <<AIMessage("welcome")>>)
          /\ last_user_message' = None
     ELSE /\ \E reply \in {"reply", "fallback"} :
               messages' = add_messages(messages, <<AIMessage(reply)>>)
          /\ last_user_message' = LastHuman(messages)
  /\ Goto("profiler_node")
  /\ UNCHANGED <<other_session, yielded, turns, resume, l1_observations_summary, last_turn_analysis,
                 session_new_observation_count, editor_vars, db_vars, marks,
                 appended>>

\* should_save_observation, on the length of the stripped content
should_save_observation(stripped_len) == ~(stripped_len < MinLength)

\* the candidate lists the Extraction Adapter returns: stripped content lengths
ProfilerResults == { <<>>, <<4, 5, 5>>, <<9, 9, 9, 9, 9>> }

\* the inserts that raise, as sets of candidate positions
WriteFailures == { {}, {1} }

SavedCount_aborts(cands, write_ok) ==
  Cardinality({ i \in 1..Len(cands) :
                  /\ should_save_observation(cands[i])
                  /\ \A j \in 1..i : write_ok[j] })

\* save_observation_to_l1 on each candidate in turn; the number of rows written
\* (write_ok[i]: the insert of candidate i does not raise)
SavedCount(cands, write_ok) ==
  Cardinality({ i \in 1..Len(cands) :
                  should_save_observation(cands[i]) /\ write_ok[i] })

is_ready_to_refine_above(new_session_count) ==
  new_session_count > ReadyThreshold

\* profiler_node: is_ready_to_refine = new_session_count >= 10
is_ready_to_refine(new_session_count) ==
  new_session_count >= ReadyThreshold

\* profiler_node's return value, as (analysis, rows written)
ProfilerOutcomes ==
  IF last_user_message = None
  THEN { <<None, 0>> }
  ELSE { <<None, 0>> }    \* structured_llm.invoke raised
       \cup
       UNION { { <<Some([has_new_info |-> SavedCount(cands, write_ok) > 0,
                         new_observation_count |-> SavedCount(cands, write_ok),
                         \* history, not in the dict the node returns: the
                         \* adapter's result.observations and the inserts
                         \* that returned
                         batch |-> [observations |-> cands,
                                    write_ok |-> write_ok],
                         is_ready_to_refine |->
                           is_ready_to_refine(session_new_observation_count
                                                + SavedCount(cands, write_ok))]),
                   SavedCount(cands, write_ok)>> :
                   write_ok \in { [i \in 1..Len(cands) |-> i \notin f] :
                                    f \in WriteFailures } } :
               cands \in ProfilerResults }

profiler_node ==
  /\ running /\ pc = "profiler_node"
  /\ \E out \in ProfilerOutcomes :
       LET analysis == out[1]
           total_saved == out[2]
           enter == asset_extraction_router(analysis) = "enter_refinement"
       IN /\ last_turn_analysis' = analysis
          /\ raw_observations' =
               raw_observations \o [i \in 1..total_saved |-> PendingRow(OwnerId)]
          /\ session_new_observation_count' =
               session_new_observation_count + total_saved
          /\ marks' = marks \o [i \in 1..total_saved |-> 0]
          /\ Goto(IF enter THEN "editor_loader_node" ELSE "END")
  /\ UNCHANGED <<editor_vars, appended>>
  /\ UNCHANGED <<turns, resume, messages, l1_observations_summary,
                 last_user_message, profile_sections>>
  /\ yielded' = process_event(messages, yielded)
  /\ UNCHANGED other_session

(***************************************************************************)
(* proposal_and_refine subgraph (review phase)                             *)
(***************************************************************************)
PendingIds_any_status(table, uid) ==
  { i \in 1..Len(table) : table[i].user_id = uid }

\* editor_loader_node's query: rows of the user with status pending, in creation order
PendingIds(table, uid) ==
  { i \in 1..Len(table) : table[i].user_id = uid /\ table[i].status = "pending" }

editor_loader_node ==
  /\ running /\ pc = "editor_loader_node"
  /\ raw_materials' =
       IdsInOrder(PendingIds(raw_observations, OwnerId), Len(raw_observations))
  /\ current_drafts' = <<>>
  /\ active_index' = 0
  /\ Goto("proposer_node")
  /\ UNCHANGED <<other_session, yielded, turns, resume, messages, chat_vars, save_error, db_vars,
                 marks, appended>>

proposer_node ==
  /\ running /\ pc = "proposer_node"
  /\ \/ /\ raw_materials = <<>>
        /\ current_drafts' = <<>>
        /\ messages' = add_messages(messages, <<AIMessage("nothing_to_review")>>)
     \/ \* the Summarization Adapter raised
        /\ raw_materials # <<>>
        /\ current_drafts' = <<>>
        /\ messages' = add_messages(messages, <<AIMessage("proposer_error")>>)
     \/ /\ raw_materials # <<>>
        /\ current_drafts' \in DraftLists(MaxDrafts)
        /\ messages' = messages
  /\ active_index' = 0
  /\ Goto(route_scheduler(active_index', current_drafts'))
  /\ UNCHANGED <<turns, resume, chat_vars, raw_materials, save_error, db_vars,
                 marks, appended>>
  /\ yielded' = IF pc' = "END" THEN process_event(messages', yielded) ELSE yielded
  /\ UNCHANGED other_session

\* human_node up to interrupt(): nothing to resume with, the graph suspends
human_node_interrupt ==
  /\ running /\ pc = "human_node"
  /\ resume = None
  /\ running' = FALSE
  /\ turn_kind' = "none"
  /\ UNCHANGED <<other_session, yielded, turns, pc, resume, messages, chat_vars, editor_vars, db_vars,
                 marks, appended>>

\* human_node re-executed with the resume payload, then route_user_intent
human_node_resume ==
  /\ running /\ pc = "human_node"
  /\ resume # None
  /\ messages' = add_messages(messages, resume[1])
  /\ resume' = None
  /\ Goto(route_user_intent(messages', save_error))
  /\ UNCHANGED <<other_session, yielded, turns, chat_vars, editor_vars, db_vars, marks, appended>>

RefinedDraft_verbatim(current_draft, refined_draft) == refined_draft

\* refiner_node's replacement of the draft at the cursor
RefinedDraft(current_draft, refined_draft) ==
  ProfileItemSchema(refined_draft.standard_content, refined_draft.tags,
                    current_draft.source_l1_ids, refined_draft.section_name)

SetDraft_appends(drafts, idx, draft) == Append(drafts, draft)

\* refiner_node: drafts[idx] = ProfileItemSchema(...)
SetDraft(drafts, idx, draft) == [drafts EXCEPT ![idx + 1] = draft]

refiner_node_except_drops(drafts) == <<>>

\* refiner_node, the Refinement Adapter raised: `return state`
refiner_node_except(drafts) == drafts

refiner_node_edge_self == "refiner_node"

\* workflow.add_edge("refiner_node", "human_node")
refiner_node_edge == "human_node"

refiner_node ==
  /\ running /\ pc = "refiner_node"
  /\ IF active_index >= Len(current_drafts) \/ messages.last = None
     THEN UNCHANGED current_drafts
     ELSE \/ current_drafts' = refiner_node_except(current_drafts)
          \/ \E refined_draft \in RefinedOutputs :
               current_drafts' =
                 SetDraft(current_drafts, active_index,
                          RefinedDraft(current_drafts[active_index + 1],
                                       refined_draft))
  /\ Goto(refiner_node_edge)
  /\ UNCHANGED <<other_session, yielded, turns, resume, messages, chat_vars, raw_materials, active_index,
                 save_error, db_vars, marks, appended>>

skipper_result_keeps_error(idx, err) ==
  [active_index |-> idx + 1, save_error |-> err]

\* skipper_node's return value (its "messages": [] adds nothing to the channel)
skipper_result(idx, err) ==
  [active_index |-> idx + 1, save_error |-> None]

skipper_node ==
  /\ running /\ pc = "skipper_node"
  /\ active_index' = skipper_result(active_index, save_error).active_index
  /\ save_error' = skipper_result(active_index, save_error).save_error
  /\ Goto(route_scheduler(active_index', current_drafts))
  /\ UNCHANGED <<turns, resume, messages, chat_vars, raw_materials,
                 current_drafts, db_vars, marks, appended>>
  /\ yielded' = IF pc' = "END" THEN process_event(messages', yielded) ELSE yielded
  /\ UNCHANGED other_session

(***************************************************************************)
(* single_saver_node.  The two table writes happen in one Session and one  *)
(* session.commit(): either both are durable or neither.                   *)
(***************************************************************************)
\* the dict appended to content["drafts"]
DraftPayload(draft) ==
  [standard_content |-> draft.standard_content, tags |-> draft.tags,
   section_name |-> draft.section_name, source_l1_ids |-> draft.source_l1_ids]

SectionAfterCommit_tracked(existing_section, payload) ==
  [exists |-> TRUE, has_drafts |-> TRUE,
   drafts |-> Append(existing_section.drafts, payload)]

\* The section row after a committed save.
\*  - no row: ProfileSection(content={"drafts": [payload]}) is added.
\*  - a row exists (its content is a dict): the code mutates the loaded dict in
\*    place (content["drafts"] = [] / .append).  ProfileSection.content is a
\*    plain Column(JSON), so the ORM does not see the mutation, the row is not
\*    dirty and the commit writes nothing for it.
SectionAfterCommit(existing_section, payload) ==
  IF existing_section.exists
  THEN existing_section
  ELSE [exists |-> TRUE, has_drafts |-> TRUE, drafts |-> <<payload>>]

SelectedIds_any_owner(table, ids, uid) ==
  { i \in 1..Len(table) : i \in SeqToSet(ids) }

\* the rows selected by id.in_(source_l1_ids) and user_id
SelectedIds(table, ids, uid) ==
  { i \in 1..Len(table) : i \in SeqToSet(ids) /\ table[i].user_id = uid }

PromoteRows_deletes(table, ids, uid) ==
  LET kept == IdsInOrder((1..Len(table)) \ SelectedIds(table, ids, uid), Len(table))
  IN [j \in 1..Len(kept) |-> table[kept[j]]]

\* l1.status = PROMOTED on each selected row
PromoteRows(table, ids, uid) ==
  [i \in 1..Len(table) |->
     IF i \in SelectedIds(table, ids, uid)
     THEN [table[i] EXCEPT !.status = "promoted"] ELSE table[i]]

RolledBack_flushed(before, after) == after

\* leaving `with Session(...)` by an exception: nothing was committed
RolledBack(before, after) == before

\* single_saver_node's return value on success and on failure
saver_success(idx) ==
  [active_index |-> idx + 1, save_error |-> None]

saver_failure_advances(idx) ==
  [active_index |-> idx + 1,
   save_error |-> Some([error |-> "save_failed", draft_index |-> idx])]

saver_failure(idx) ==
  [active_index |-> idx,
   save_error |-> Some([error |-> "save_failed", draft_index |-> idx])]

single_saver_node ==
  /\ running /\ pc = "single_saver_node"
  /\ IF active_index >= Len(current_drafts)
     THEN UNCHANGED <<messages, active_index, save_error, db_vars, marks, appended>>
     ELSE LET draft == current_drafts[active_index + 1]
              section_key == _map_section_name_to_key(draft.section_name)
              payload == DraftPayload(draft)
              sections_written ==
                [profile_sections EXCEPT ![section_key] =
                   SectionAfterCommit(profile_sections[section_key], payload)]
              rows_written ==
                PromoteRows(raw_observations, draft.source_l1_ids, OwnerId)
          IN \/ \* session.commit() returned
                /\ profile_sections' = sections_written
                /\ raw_observations' = rows_written
                /\ marks' = [i \in 1..Len(marks) |->
                               IF i \in SelectedIds(raw_observations,
                                                    draft.source_l1_ids, OwnerId)
                               THEN marks[i] + 1 ELSE marks[i]]
                /\ appended' = IF sections_written # profile_sections
                               THEN Append(appended, active_index) ELSE appended
                /\ active_index' = saver_success(active_index).active_index
                /\ save_error' = saver_success(active_index).save_error
                /\ messages' = messages
             \/ \* an exception inside the try block
                /\ profile_sections' = RolledBack(profile_sections, sections_written)
                /\ raw_observations' = RolledBack(raw_observations, rows_written)
                /\ marks' = marks
                /\ appended' = IF profile_sections' # profile_sections
                               THEN Append(appended, active_index) ELSE appended
                /\ active_index' = saver_failure(active_index).active_index
                /\ save_error' = saver_failure(active_index).save_error
                /\ messages' = add_messages(messages, <<AIMessage("save_failed")>>)
  /\ Goto(route_after_saver(save_error', active_index', current_drafts))
  /\ UNCHANGED <<turns, resume, chat_vars, raw_materials, current_drafts>>
  /\ yielded' = IF pc' = "END" THEN process_event(messages', yielded) ELSE yielded
  /\ UNCHANGED other_session

(***************************************************************************)
(* Specification.                                                          *)
(***************************************************************************)
\* The process dies in single_saver_node after session.commit() returned and
\* before the node's return value is checkpointed.  With a checkpointer that
\* outlives the process the thread still has state.next = single_saver_node
\* and the cursor of before; the next message resumes it there.
saver_crash ==
  /\ running /\ pc = "single_saver_node"
  /\ active_index < Len(current_drafts)
  /\ LET draft == current_drafts[active_index + 1]
         section_key == _map_section_name_to_key(draft.section_name)
         sections_written ==
           [profile_sections EXCEPT ![section_key] =
              SectionAfterCommit(profile_sections[section_key], DraftPayload(draft))]
     IN /\ profile_sections' = sections_written
        /\ raw_observations' =
             PromoteRows(raw_observations, draft.source_l1_ids, OwnerId)
        /\ marks' = [i \in 1..Len(marks) |->
                       IF i \in SelectedIds(raw_observations,
                                            draft.source_l1_ids, OwnerId)
                       THEN marks[i] + 1 ELSE marks[i]]
        /\ appended' = IF sections_written # profile_sections
                       THEN Append(appended, active_index) ELSE appended
  /\ running' = FALSE
  /\ turn_kind' = "none"
  /\ UNCHANGED <<other_session, yielded, turns, pc, resume, messages, chat_vars, editor_vars>>

Next ==
  \/ send_message_stream
  \/ profile_loader_node
  \/ chat_node
  \/ profiler_node
  \/ editor_loader_node
  \/ proposer_node
  \/ human_node_interrupt
  \/ human_node_resume
  \/ refiner_node
  \/ skipper_node
  \/ single_saver_node

Spec == Init /\ [][Next]_vars

\* the nodes that call get_or_create_user outside any try block
UserLookupNodes ==
  {"profile_loader_node", "profiler_node", "editor_loader_node", "single_saver_node"}

\* The store fails in get_or_create_user, which raises.  The call sites are
\* not guarded and neither is graph.stream() in send_message_stream: the
\* exception leaves the turn.  The node returned nothing, so the checkpoint
\* still has it as state.next and the next message resumes it there.
get_or_create_user_raises ==
  /\ running /\ pc \in UserLookupNodes
  /\ pc = "profiler_node" => last_user_message # None
  /\ pc = "single_saver_node" => active_index < Len(current_drafts)
  /\ running' = FALSE
  /\ turn_kind' = "raised"
  /\ UNCHANGED <<other_session, yielded, turns, pc, resume, messages, chat_vars, editor_vars, db_vars,
                 marks, appended>>

\* the same program with a store that can fail during the user lookup
ExceptionNext == Next \/ get_or_create_user_raises
ExceptionSpec == Init /\ [][ExceptionNext]_vars

\* Another thread of the same user persists an observation through
\* save_observation_to_l1 while this session's review phase is suspended: a
\* new pending row of the user in the shared table.  (Rows of other users,
\* which no query of this session matches, are in InitialTables.)
other_session_saves ==
  /\ ~running /\ pc = "human_node"
  /\ Len(raw_observations) < MaxStoreRows
  /\ raw_observations' = Append(raw_observations, PendingRow(OwnerId))
  /\ marks' = Append(marks, 0)
  /\ UNCHANGED <<other_session, yielded, turns, running, pc, resume, messages, chat_vars, editor_vars,
                 profile_sections, appended, turn_kind>>

\* the same program on a store that other sessions write to
SharedStoreNext == Next \/ other_session_saves
SharedStoreSpec == Init /\ [][SharedStoreNext]_vars

\* A second ChatService of the same username (another session_uuid, hence
\* another thread_id and its own EditorState) starts a review phase while this
\* session's phase is suspended: its editor_loader_node runs the same query.
other_session_loads ==
  /\ ~running /\ pc = "human_node"
  /\ other_session.raw_materials = <<>>
  /\ PendingIds(raw_observations, OwnerId) # {}
  /\ other_session' =
       [other_session EXCEPT !.raw_materials =
          IdsInOrder(PendingIds(raw_observations, OwnerId), Len(raw_observations))]
  /\ UNCHANGED <<yielded, turns, running, pc, resume, messages, chat_vars,
                 editor_vars, db_vars, marks, appended, turn_kind>>

\* The second session's single_saver_node commits one draft of its phase:
\* the same two writes and session.commit() as single_saver_node.
other_session_commits ==
  /\ ~running /\ pc = "human_node"
  /\ other_session.raw_materials # <<>> /\ other_session.promoted = {}
  /\ \E draft \in ProposedDrafts :
       LET section_key == _map_section_name_to_key(draft.section_name)
       IN /\ profile_sections' =
               [profile_sections EXCEPT ![section_key] =
                  SectionAfterCommit(profile_sections[section_key],
                                     DraftPayload(draft))]
          /\ raw_observations' =
               PromoteRows(raw_observations, draft.source_l1_ids, OwnerId)
          /\ other_session' =
               [other_session EXCEPT !.promoted =
                  SelectedIds(raw_observations, draft.source_l1_ids, OwnerId)]
  /\ UNCHANGED <<yielded, turns, running, pc, resume, messages, chat_vars,
                 editor_vars, marks, appended, turn_kind>>

\* two sessions of one user whose review phases overlap
TwoSessionNext == Next \/ other_session_loads \/ other_session_commits
TwoSessionSpec == Init /\ [][TwoSessionNext]_vars

\* the same program on a checkpointer that survives a process crash
CrashNext == Next \/ saver_crash
CrashSpec == Init /\ [][CrashNext]_vars

\* one node of the graph runs: every step of a turn after its dispatch
NodeStep ==
  \/ profile_loader_node
  \/ chat_node
  \/ profiler_node
  \/ editor_loader_node
  \/ proposer_node
  \/ human_node_interrupt
  \/ human_node_resume
  \/ refiner_node
  \/ skipper_node
  \/ single_saver_node

TypeOK ==
  /\ turns \in 0..MaxTurns
  /\ running \in BOOLEAN
  /\ pc \in {"END", "profile_loader_node", "chat_node", "profiler_node",
             "editor_loader_node", "proposer_node", "human_node",
             "refiner_node", "skipper_node", "single_saver_node"}
  /\ active_index \in Nat
  /\ Len(marks) = Len(raw_observations)

(***************************************************************************)
(* Properties of the review phase.                                         *)
(***************************************************************************)
CaptureNodes == {"profile_loader_node", "chat_node", "profiler_node"}
RoutedNodes == {"refiner_node", "skipper_node", "single_saver_node"}
\* the nodes of the review phase after proposer_node stored the drafts
ReviewNodes == {"human_node"} \cup RoutedNodes

\* an instruction after trimming and case-folding
TrimFold(text) == Strip(Lower(text))

\* the routed instruction: the human message route_user_intent has just read
Routed == pc \in RoutedNodes /\ messages.last # None
          /\ messages.last[1].type = "human"
RoutedText == messages.last[1].content

\* C1: within a review phase no step decreases the cursor, and after every
\* step 0 <= active_index <= len(current_drafts).
C1_CursorMonotoneBounded ==
  [][ /\ (pc # "END" => active_index' >= active_index)
      /\ 0 <= active_index'
      /\ active_index' <= Len(current_drafts') ]_vars

\* a phase of two drafts driven to its end
C1_Witness ==
  pc = "END" /\ Len(current_drafts) = 2 /\ active_index = 2

\* C2: a single_saver_node step that ends with a pending error (the commit
\* failed) leaves the observation table and the profile sections as they were
\* and does not move the cursor.
C2_FailedCommitChangesNothing ==
  [][ (pc = "single_saver_node" /\ save_error' # None)
        => /\ raw_observations' = raw_observations
           /\ profile_sections' = profile_sections
           /\ active_index' = active_index ]_vars

\* just after a failed commit of a draft that has evidence rows of the owner
\* and whose section has no row yet: the rows are pending, the row is absent
C2_Witness ==
  /\ running /\ pc = "human_node" /\ resume = None /\ save_error # None
  /\ active_index < Len(current_drafts)
  /\ LET draft == current_drafts[active_index + 1]
         ids == SelectedIds(raw_observations, draft.source_l1_ids, OwnerId)
     IN /\ ids # {}
        /\ \A i \in ids : raw_observations[i].status = "pending"
        /\ ~profile_sections[_map_section_name_to_key(draft.section_name)].exists

\* C3: within one review phase every observation id is set to promoted by at
\* most one commit.
C3_AtMostOnePromotion ==
  \A i \in 1..Len(marks) : marks[i] <= 1

C5_ExactlyOneMode ==
  ~running =>
    LET normal == /\ pc = "human_node" /\ active_index < Len(current_drafts)
                  /\ save_error = None
        error == /\ pc = "human_node" /\ active_index < Len(current_drafts)
                 /\ save_error # None
                 /\ save_error[1].draft_index = active_index
        finished == /\ pc = "END" /\ active_index = Len(current_drafts)
                    /\ save_error = None
    IN /\ normal \/ error \/ finished
       /\ ~(normal /\ error) /\ ~(normal /\ finished) /\ ~(error /\ finished)

\* suspended for the retry/skip decision on the second draft
C5_Witness ==
  /\ ~running /\ pc = "human_node" /\ save_error # None /\ active_index = 1

\* C6: a refiner_node step keeps the number of drafts, the source_l1_ids of
\* every draft, and every draft other than the one at the cursor.
C6_RefineKeepsEvidence ==
  [][ pc = "refiner_node"
        => /\ Len(current_drafts') = Len(current_drafts)
           /\ \A i \in 1..Len(current_drafts) :
                /\ current_drafts'[i].source_l1_ids = current_drafts[i].source_l1_ids
                /\ (i # active_index + 1 => current_drafts'[i] = current_drafts[i])
    ]_vars

\* a refined draft next to an untouched one; the adapter returned other ids
C6_Witness ==
  /\ Len(current_drafts) = 2 /\ active_index = 0
  /\ current_drafts[1].standard_content = "refined"
  /\ \A r \in RefinedOutputs : current_drafts[1].source_l1_ids # r.source_l1_ids
  /\ current_drafts[2] \in ProposedDrafts

\* C7: a message that arrives while the review is suspended becomes the resume
\* payload, a list of exactly that one message, and the graph stays at
\* human_node; in the turn it starts no capture node runs, the capture state and
\* the session counter keep their values, no observation row is added and no
\* chat reply is appended.
C7_SuspendedTurnResumes ==
  [][ /\ (turns' # turns /\ pc = "human_node")
         => /\ pc' = "human_node" /\ messages' = messages
            /\ resume' # None /\ Len(resume'[1]) = 1
            /\ resume'[1][1].type = "human"
      /\ (turn_kind = "resume" \/ turn_kind' = "resume")
         => /\ pc' \notin CaptureNodes
            /\ chat_vars' = chat_vars
            /\ Len(raw_observations') = Len(raw_observations)
            /\ (messages' # messages /\ messages'.last[1].type = "ai"
                  => messages'.last[1].content \notin
                       {<<"reply">>, <<"fallback">>, <<"welcome">>}) ]_vars

\* inside a resumed turn, the instruction delivered and routed
C7_Witness ==
  turn_kind = "resume" /\ pc = "single_saver_node" /\ resume = None

C9_ConfirmCommits ==
  (Routed /\ save_error = None /\ TrimFold(RoutedText) \in {KwOk, KwConfirm})
    => pc = "single_saver_node"

\* C10: with a pending error, `retry` (trimmed,
\* case-folded, exact) goes to single_saver_node at the error's cursor and every
\* other instruction goes to skipper_node.
C10_RetryIsExact ==
  (Routed /\ save_error # None)
    => IF TrimFold(RoutedText) = KwRetry
       THEN pc = "single_saver_node" /\ active_index = save_error[1].draft_index
       ELSE pc = "skipper_node"

\* C11: a single_saver_node step whose commit succeeds appends the payload of the
\* draft at the cursor to the drafts of the owner's section row for the draft's
\* category, leaves the owner's rows named in source_l1_ids promoted, clears
\* the pending error and moves the cursor by exactly 1.
C11_CommitAppendsAndPromotes ==
  [][ (running /\ pc = "single_saver_node"
         /\ active_index < Len(current_drafts) /\ save_error' = None)
        => LET draft == current_drafts[active_index + 1]
               section_key == _map_section_name_to_key(draft.section_name)
           IN /\ profile_sections'[section_key].exists
              /\ profile_sections'[section_key].drafts =
                   Append(profile_sections[section_key].drafts, DraftPayload(draft))
              /\ \A i \in SelectedIds(raw_observations, draft.source_l1_ids, OwnerId) :
                   raw_observations'[i].status = "promoted"
              /\ active_index' = active_index + 1 ]_vars


\* C12: a failed commit at cursor k sets save_error with draft_index k, keeps
\* the cursor and returns to human_node, which suspends there; while the error
\* is pending no step changes the draft list or moves the cursor except the
\* step that clears the error; a commit that succeeds from the pending error
\* leaves the cursor at k + 1 with no error.
C12_RetryAfterFailure ==
  [][ /\ (pc = "single_saver_node" /\ save_error' # None)
         => /\ save_error'[1].draft_index = active_index
            /\ active_index' = active_index
            /\ pc' = "human_node"
      /\ (save_error # None)
         => /\ current_drafts' = current_drafts
            /\ (save_error' # None => active_index' = active_index)
            /\ (running /\ pc = "human_node" /\ resume = None => ~running')
            /\ pc' # "refiner_node"
      /\ (pc = "single_saver_node" /\ save_error # None /\ save_error' = None)
         => active_index' = save_error[1].draft_index + 1 ]_vars

\* `retry` after a failed commit: single_saver_node is about to commit the
\* draft the adapter proposed at the cursor of the error
C12_Witness ==
  /\ running /\ pc = "single_saver_node" /\ save_error # None
  /\ messages.last = Some(HumanMessage(KwRetry))
  /\ active_index = save_error[1].draft_index
  /\ current_drafts[active_index + 1] \in ProposedDrafts

\* C13: a skipper_node step, in normal review or in error recovery, leaves no
\* pending error, moves the cursor by exactly 1 and changes neither table nor
\* the draft list.
C13_SkipFrame ==
  [][ pc = "skipper_node"
        => /\ save_error' = None
           /\ active_index' = active_index + 1
           /\ raw_observations' = raw_observations
           /\ profile_sections' = profile_sections
           /\ current_drafts' = current_drafts ]_vars

\* the first draft was skipped out of a pending error (` OK` does not contain
\* retry): the cursor is 1, no error, every row is still pending
C13_Witness ==
  /\ active_index = 1 /\ save_error = None /\ Len(current_drafts) = 2
  /\ messages.last = Some(HumanMessage(TxtOkPadded))
  /\ Len(raw_observations) = 4
  /\ \A i \in 1..3 : raw_observations[i].status = "pending"
  /\ profile_sections = create_default_profile_sections

\* C14: a profiler_node step that returns an analysis leaves the session
\* counter at its old value plus the number of rows the step added to
\* raw_observations, reports that number, and sets is_ready_to_refine exactly
\* when the new counter is at least 10.
C14_CounterAndThreshold ==
  [][ (pc = "profiler_node" /\ last_turn_analysis' # None)
        => LET persisted == Len(raw_observations') - Len(raw_observations)
           IN /\ session_new_observation_count' =
                   session_new_observation_count + persisted
              /\ last_turn_analysis'[1].new_observation_count = persisted
              /\ last_turn_analysis'[1].is_ready_to_refine
                   <=> (session_new_observation_count' >= ReadyThreshold) ]_vars

\* 9 accumulated, 2 persisted in this turn: the counter is 11 and the turn is
\* ready for review
C14_Witness ==
  /\ session_new_observation_count = 11
  /\ last_turn_analysis # None
  /\ last_turn_analysis[1].new_observation_count = 2
  /\ last_turn_analysis[1].is_ready_to_refine

\* C15: once a review phase has been entered (Loading has run) the session
\* counter is 0, so that it counts only what is persisted after that review.
C15_CounterRestartsAtReview ==
  pc \in {"proposer_node", "human_node", "refiner_node", "skipper_node",
          "single_saver_node"}
    => session_new_observation_count = 0

C18_ProposerFailureEndsPhase ==
  [][ (pc = "proposer_node" /\ messages'.last = Some(AIMessage("proposer_error")))
        => /\ raw_materials # <<>>
           /\ current_drafts' = <<>> /\ active_index' = 0
           /\ raw_observations' = raw_observations
           /\ profile_sections' = profile_sections
           /\ pc' = "END" /\ ~running' /\ turns' = turns ]_vars

\* the phase is over with the error notice as the newest message
C18_Witness ==
  /\ ~running /\ pc = "END" /\ raw_materials # <<>>
  /\ current_drafts = <<>> /\ active_index = 0
  /\ messages.last = Some(AIMessage("proposer_error"))

\* C19: when editor_loader_node found no pending observation of the owner,
\* proposer_node does not call the Summarization Adapter (no draft, no adapter
\* error): it appends the nothing-to-review notice, leaves the draft list empty
\* and ends the turn at END without a suspend.
C19_NothingToReview ==
  [][ (pc = "proposer_node" /\ raw_materials = <<>>)
        => /\ messages'.last = Some(AIMessage("nothing_to_review"))
           /\ current_drafts' = <<>> /\ active_index' = 0
           /\ pc' = "END" /\ ~running' /\ turns' = turns ]_vars

\* `edit` with an empty observation table: the phase is over with the notice
C19_Witness ==
  /\ ~running /\ pc = "END" /\ raw_materials = <<>>
  /\ PendingIds(raw_observations, OwnerId) = {}
  /\ current_drafts = <<>>
  /\ messages.last = Some(AIMessage("nothing_to_review"))
  /\ messages.last_human = Some(HumanMessage(TxtEditPadded))

\* C20: editor_loader_node leaves in raw_materials exactly the rows that
\* belong to the owner and are pending, each once and in creation order (ids
\* ascending), with an empty draft list and cursor 0.
C20_LoaderLoadsOwnersPending ==
  [][ pc = "editor_loader_node"
        => /\ \A i, j \in 1..Len(raw_materials') :
                i < j => raw_materials'[i] < raw_materials'[j]
           /\ { raw_materials'[i] : i \in 1..Len(raw_materials') } =
                { r \in 1..Len(raw_observations) :
                    /\ raw_observations[r].user_id = OwnerId
                    /\ raw_observations[r].status = "pending" }
           /\ current_drafts' = <<>> /\ active_index' = 0 ]_vars

\* a second Loading in a session: row 1 was promoted by the first phase, row 2
\* is another user's, row 4 is rejected; only row 3 is loaded
C20_Witness ==
  /\ pc = "proposer_node" /\ raw_materials = <<3>>
  /\ Len(raw_observations) = 4
  /\ raw_observations[1].status = "promoted"
  /\ raw_observations[2].user_id = OtherId
  /\ raw_observations[4].status = "rejected"

\* C21: a chat_node step on a non-empty conversation always appends a reply,
\* the fixed fallback when the conversation adapter raised, and goes on to
\* profiler_node; a profiler_node step without analysis (the extraction
\* adapter raised) adds no observation row, keeps the session counter and ends
\* the turn without entering the review.
C21_CaptureDegradesGracefully ==
  [][ /\ (pc = "chat_node" /\ messages.last # None)
         => /\ messages'.last # None /\ messages'.last[1].type = "ai"
            /\ messages'.last[1].content \in {<<"reply">>, <<"fallback">>}
            /\ pc' = "profiler_node" /\ running' /\ turns' = turns
      /\ (pc = "profiler_node" /\ last_turn_analysis' = None)
         => /\ Len(raw_observations') = Len(raw_observations)
            /\ session_new_observation_count' = session_new_observation_count
            /\ pc' = "END" /\ ~running' /\ turns' = turns ]_vars

\* a capture turn in which both adapters failed is over: the fallback reply is
\* the newest message, nothing was persisted, although the counter had stood
\* at the threshold
C21_Witness ==
  /\ ~running /\ pc = "END" /\ turns = 3
  /\ messages.last = Some(AIMessage("fallback"))
  /\ last_user_message # None /\ last_turn_analysis = None
  /\ session_new_observation_count = ReadyThreshold

\* the nodes a turn can still run after the scheduled one, counted along the
\* longest path of the two graphs (human_node counts its re-execution with a
\* resume payload, the routed node and the suspension that follows)
TurnRank ==
  CASE pc = "profile_loader_node" -> 8
    [] pc = "chat_node" -> 7
    [] pc = "profiler_node" -> 6
    [] pc = "editor_loader_node" -> 5
    [] pc = "proposer_node" -> 4
    [] pc = "human_node" -> IF resume # None THEN 3 ELSE 1
    [] pc \in RoutedNodes -> 2
    [] pc = "END" -> 0

\* C22: a dispatched turn runs to its end by itself: while it runs a node is
\* scheduled (every node action is enabled by `running` and its own pc alone,
\* human_node in both of its cases), every step leaves fewer nodes to run,
\* and it ends suspended in human_node or at END.  A resumed turn hands its one instruction to
\* human_node and runs the routed node with nothing left to resume with; a
\* refiner_node step leads back to human_node on the same cursor, where the
\* turn suspends.
C22_TurnTerminates ==
  /\ [](running => pc \in CaptureNodes \cup ReviewNodes
                          \cup {"editor_loader_node", "proposer_node"})
  /\ [](~running => pc \in {"human_node", "END"})
  /\ [](running /\ pc \in RoutedNodes => resume = None)
  /\ [][ /\ (running /\ running') => TurnRank' < TurnRank
         /\ (pc = "refiner_node")
            => pc' = "human_node" /\ active_index' = active_index /\ resume' = None
         /\ (running /\ pc = "human_node" /\ resume = None)
            => ~running' /\ pc' = "human_node" /\ active_index' = active_index ]_vars

\* the turn of an edit instruction is over: suspended again on the first draft,
\* which the refiner replaced
C22_Witness ==
  /\ ~running /\ pc = "human_node" /\ turns >= 2 /\ resume = None
  /\ active_index = 0 /\ Len(current_drafts) = MaxDrafts
  /\ current_drafts[1].standard_content = "refined"
  /\ messages.last = Some(HumanMessage(TxtEditPlease))

\* C23: no turn leaves send_message_stream by an exception: every failure of
\* an adapter or of the store inside a node is turned into a fallback message
\* or a pending error.
C23_NoExceptionEscapes == turn_kind # "raised"

\* C24: single_saver_node is scheduled only by human_node re-executed with a
\* human instruction, classified as confirm while no error is pending and as
\* retry while one is; a single_saver_node step that leaves an error pending
\* leads to human_node with nothing to resume with, where the turn suspends.
C24_CommitOnlyOnInstruction ==
  [][ /\ (pc' = "single_saver_node" /\ pc # "single_saver_node")
         => /\ pc = "human_node" /\ resume # None
            /\ messages'.last = Some(resume[1][1])
            /\ messages'.last[1].type = "human"
            /\ IF save_error = None
               THEN IsConfirm(Lower(messages'.last[1].content))
               ELSE IsRetry(Lower(messages'.last[1].content))
      /\ (pc = "single_saver_node" /\ save_error' # None)
         => pc' = "human_node" /\ resume' = None /\ running' ]_vars

\* the turn is suspended on a failed commit: the saver ran once, on the
\* instruction ` OK`, and the cursor did not move
C24_Witness ==
  /\ ~running /\ pc = "human_node" /\ save_error # None
  /\ active_index = 1 /\ save_error[1].draft_index = 1
  /\ messages.last = Some(AIMessage("save_failed"))
  /\ messages.last_human = Some(HumanMessage(TxtOkPadded))

\* C25: from the moment the drafts are stored until the phase is over no step
\* changes how many drafts there are, and a step changes at most the draft at
\* the cursor, which only refiner_node does.
C25_DraftBatchIsFixed ==
  [][ /\ pc \in ReviewNodes => Len(current_drafts') = Len(current_drafts)
      /\ pc \in ReviewNodes =>
           \A i \in 1..Len(current_drafts) :
             (i # active_index + 1) => (current_drafts'[i] = current_drafts[i])
      /\ (pc \in ReviewNodes /\ current_drafts' # current_drafts)
         => pc = "refiner_node" ]_vars

\* the second draft was replaced by an edit while the first, skipped before,
\* is as proposed
C25_Witness ==
  /\ ~running /\ pc = "human_node" /\ active_index = 1
  /\ Len(current_drafts) = MaxDrafts
  /\ current_drafts[1].standard_content = "proposed"
  /\ current_drafts[2].standard_content = "refined"
  /\ current_drafts[2].source_l1_ids # <<2, 3>>

\* C26: a refiner_node step keeps the cursor, the pending error, both tables
\* and the raw materials, and leads to human_node with nothing to resume with;
\* it leaves the drafts as they are (the Refinement Adapter raised) or
\* replaces the draft at the cursor by a refined one; the human_node step
\* that follows suspends the turn on the same cursor.
C26_RefineResuspends ==
  [][ /\ (pc = "refiner_node")
         => /\ active_index' = active_index /\ save_error' = save_error
            /\ raw_observations' = raw_observations
            /\ profile_sections' = profile_sections
            /\ raw_materials' = raw_materials
            /\ pc' = "human_node" /\ running' /\ resume' = None
            /\ \/ current_drafts' = current_drafts
               \/ \E refined_draft \in RefinedOutputs :
                    current_drafts' =
                      SetDraft(current_drafts, active_index,
                               RefinedDraft(current_drafts[active_index + 1],
                                            refined_draft))
      /\ (running /\ pc = "human_node" /\ resume = None)
         => ~running' /\ UNCHANGED <<pc, editor_vars, db_vars>> ]_vars

\* suspended again after an edit instruction that changed nothing: the
\* Refinement Adapter failed on the second draft
C26_Witness ==
  /\ ~running /\ pc = "human_node" /\ active_index = 1 /\ save_error = None
  /\ Len(current_drafts) = MaxDrafts
  /\ current_drafts[2].standard_content = "proposed"
  /\ messages.last = Some(HumanMessage(TxtEditPadded))
  /\ turns = 3

\* C27: raw_materials is written by editor_loader_node when the phase is
\* entered and by nothing else until the phase is over (a turn dispatched from
\* START begins without it), also while other sessions add observations to
\* the table during a suspension.
C27_MaterialsLoadedOnce ==
  [][ /\ (pc \in ReviewNodes \cup {"proposer_node"})
         => raw_materials' = raw_materials
      /\ (raw_materials' # raw_materials)
         => \/ pc = "editor_loader_node"
            \/ ~running /\ pc = "END" /\ raw_materials' = <<>> ]_vars

\* a resumed turn works on the materials loaded at entry although the user
\* has one more pending observation by now
C27_Witness ==
  /\ running /\ pc = "refiner_node" /\ turn_kind = "resume"
  /\ Len(raw_observations) = MaxStoreRows
  /\ raw_materials = <<1, 3>>
  /\ PendingIds(raw_observations, OwnerId) = {1, 3, MaxStoreRows}

\* C28: the drafts list of every section row is append-only: a step leaves it
\* as it is or, being a commit of single_saver_node, adds the payload of the
\* draft at the cursor at its end; and every single_saver_node step whose
\* commit succeeds makes the list of the draft's category longer by exactly
\* one entry.
C28_PayloadAppendOnly ==
  [][ /\ \A k \in SectionKeys :
           \/ profile_sections'[k].drafts = profile_sections[k].drafts
           \/ /\ pc = "single_saver_node" /\ active_index < Len(current_drafts)
              /\ k = _map_section_name_to_key(
                       current_drafts[active_index + 1].section_name)
              /\ profile_sections'[k].drafts =
                   Append(profile_sections[k].drafts,
                          DraftPayload(current_drafts[active_index + 1]))
      /\ (running /\ pc = "single_saver_node"
            /\ active_index < Len(current_drafts) /\ save_error' = None)
         => LET k == _map_section_name_to_key(
                       current_drafts[active_index + 1].section_name)
            IN Len(profile_sections'[k].drafts)
                 = Len(profile_sections[k].drafts) + 1 ]_vars

\* C29: no step removes an observation row or changes its owner; a row that a
\* step adds is pending; the only change a step makes to a row is to leave it
\* promoted, and a promoted row stays promoted.
C29_ObservationLifecycle ==
  [][ /\ Len(raw_observations') >= Len(raw_observations)
      /\ \A i \in 1..Len(raw_observations) :
           /\ raw_observations'[i].user_id = raw_observations[i].user_id
           /\ (raw_observations'[i] # raw_observations[i])
              => raw_observations'[i].status = "promoted"
           /\ (raw_observations[i].status = "promoted")
              => raw_observations'[i].status = "promoted"
      /\ \A i \in (Len(raw_observations) + 1)..Len(raw_observations') :
           raw_observations'[i].status = "pending" ]_vars

\* observation 1 was promoted by two commits and is promoted, the rejected row
\* is as it was, and a row added meanwhile is pending
C29_Witness ==
  /\ Len(raw_observations) = 5 /\ marks[1] = 2
  /\ raw_observations[1].status = "promoted"
  /\ raw_observations[4].status = "rejected"
  /\ raw_observations[5] = PendingRow(OwnerId)

C32_SameSummaryInTurn ==
  /\ []((running /\ pc \in {"chat_node", "profiler_node"})
        => /\ l1_observations_summary # <<>>
           /\ (OwnerObservationIds(raw_observations, OwnerId) = {})
              => l1_observations_summary = EMPTY_USER_PROFILE_SNAPSHOT)
  /\ [][ (pc \in {"chat_node", "profiler_node"})
         => l1_observations_summary' = l1_observations_summary ]_vars

\* profiler_node is about to run after a reply was appended, with the summary
\* of the user's three rows that profile_loader_node stored
C32_Witness ==
  /\ running /\ pc = "profiler_node"
  /\ messages.last = Some(AIMessage("reply"))
  /\ l1_observations_summary = <<1, 3, 4>>

\* C33: when no node is scheduled (a finished review phase leaves none) nothing
\* waits to be resumed, and the next message starts a turn from START: it is
\* appended to the conversation as a human message, no resume payload is set,
\* and the turn begins at editor_loader_node when the message is `edit` after
\* trimming and case-folding, at profile_loader_node otherwise.
C33_DoneStartsFresh ==
  /\ []((~running /\ pc = "END") => resume = None)
  /\ [][ (turns' # turns /\ pc = "END")
         => /\ turn_kind' = "fresh" /\ resume' = None
            /\ messages'.last # None /\ messages'.last = messages'.last_human
            /\ messages'.last[1].type = "human"
            /\ pc' = IF TrimFold(messages'.last[1].content) = KwEdit
                     THEN "editor_loader_node" ELSE "profile_loader_node" ]_vars

\* the message after a review phase that ended with a commit is in a capture
\* turn, although its text is a review instruction
C33_Witness ==
  /\ running /\ turn_kind = "fresh" /\ pc = "chat_node" /\ turns = 3
  /\ raw_observations # <<>> /\ raw_observations[1].status = "promoted"
  /\ messages.last = Some(HumanMessage(KwSkip))
  /\ current_drafts = <<>>

\* C34: a skipper_node step, and a single_saver_node step whose commit
\* succeeds, leave the messages of the review state empty: the instruction
\* they consumed is no longer in the buffer.
C34_BufferClearedOnConsume ==
  [][ (running /\ (\/ pc = "skipper_node"
                   \/ /\ pc = "single_saver_node"
                      /\ active_index < Len(current_drafts)
                      /\ save_error' = None))
      => messages' = NoMessages ]_vars

C36_ReplyThenPresentation ==
  [][ /\ (running /\ pc = "human_node" /\ resume = None /\ turn_kind = "fresh"
            /\ last_turn_analysis # None /\ messages.last # None
            /\ messages.last[1].type = "ai")
         => /\ Len(yielded') = 2
            /\ yielded'[1] \in {<<"reply">>, <<"fallback">>}
            /\ yielded'[2] \notin {<<"reply">>, <<"fallback">>}
      /\ (running /\ pc = "proposer_node" /\ raw_materials = <<>>
            /\ turn_kind = "fresh" /\ messages.last # None
            /\ messages.last[1].type = "ai")
         => /\ Len(yielded') = 2
            /\ yielded'[1] \in {<<"reply">>, <<"fallback">>}
            /\ yielded'[2] = <<"nothing_to_review">> ]_vars

\* C37: a step changes the status of an observation only when the observation
\* is one of the raw materials the current review phase loaded, whatever ids
\* the committed draft carries in source_l1_ids.
C37_PromotesOnlyLoaded ==
  [][ \A i \in 1..Len(raw_observations) :
        (raw_observations'[i] # raw_observations[i])
        => i \in SeqToSet(raw_materials) ]_vars

\* C38: when a review phase has ended, each of its raw materials that no
\* committed draft cited is still pending and each one a committed draft cited
\* is promoted; skipper_node and every step outside single_saver_node leave
\* the rows as they are; and the next editor_loader_node loads exactly the
\* user's pending rows, so the former are loaded again and the latter are not.
C38_SkippedStayPending ==
  /\ [](pc = "END" /\ ~running
          => \A j \in 1..Len(raw_materials) :
               /\ marks[raw_materials[j]] = 0
                  => raw_observations[raw_materials[j]].status = "pending"
               /\ marks[raw_materials[j]] >= 1
                  => raw_observations[raw_materials[j]].status = "promoted")
  /\ [][ /\ (pc # "single_saver_node")
            => \A i \in 1..Len(raw_observations) :
                 raw_observations'[i] = raw_observations[i]
         /\ (running /\ pc = "editor_loader_node")
            => \A i \in 1..Len(raw_observations) :
                 (raw_observations[i].user_id = OwnerId)
                 => ((i \in SeqToSet(raw_materials'))
                       <=> (raw_observations[i].status = "pending")) ]_vars

\* a phase over observations 1 and 3 has ended: its first draft (evidence 1)
\* was committed and its second draft (evidence 1, 2, 3) was skipped, so
\* observation 1 is promoted and observation 3 is pending
C38_Witness ==
  /\ pc = "END" /\ ~running /\ raw_materials = <<1, 3>>
  /\ Len(current_drafts) = 2 /\ active_index = 2
  /\ current_drafts[1].source_l1_ids = <<1>>
  /\ current_drafts[2].source_l1_ids = <<1, 2, 3>>
  /\ marks[1] = 1 /\ marks[3] = 0
  /\ raw_observations[1].status = "promoted"
  /\ raw_observations[3].status = "pending"

\* C39: when two sessions of the same user run review phases over overlapping
\* batches, no observation is set to promoted by a commit of this session and
\* also by a commit of the other session.
C39_ConsumedByOneSession ==
  \A i \in 1..Len(marks) : ~(marks[i] >= 1 /\ i \in other_session.promoted)

\* C40: the cursor counts the decisions of a phase.  While a draft is under
\* review the cursor is below the number of drafts, and a phase that had
\* drafts has ended exactly when the cursor equals their number.  The cursor
\* moves only by one, and only in skipper_node (a skip) or in a commit of
\* single_saver_node that succeeded; a failed commit leaves it and goes back
\* to human_node.  After a decision the phase ends if the cursor reached the
\* number of drafts and presents the next draft otherwise, so a phase with n
\* drafts ends after exactly n decisions, commits plus skips.  Every answer
\* `skip`, `ok` or (after a failure) `retry` is routed to a deciding node, so
\* each such answer whose commit succeeds brings the end one decision nearer.
C40_PhaseEndsAfterNDecisions ==
  /\ [](pc \in ReviewNodes => active_index < Len(current_drafts))
  /\ [](pc = "END" /\ current_drafts # <<>>
          => active_index = Len(current_drafts))
  /\ [][ /\ (active_index' # active_index)
            => \/ active_index' = 0
               \/ /\ pc \in {"skipper_node", "single_saver_node"}
                  /\ active_index' = active_index + 1
                  /\ save_error' = None
                  /\ pc' = IF active_index' = Len(current_drafts)
                           THEN "END" ELSE "human_node"
         /\ (running /\ pc = "skipper_node")
            => active_index' = active_index + 1
         /\ (running /\ pc = "single_saver_node")
            => IF save_error' = None
               THEN active_index' = active_index + 1
               ELSE active_index' = active_index /\ pc' = "human_node"
         /\ (running /\ pc = "human_node" /\ resume # None /\ save_error = None
               /\ TrimFold(resume[1][1].content) = KwSkip)
            => pc' = "skipper_node"
         /\ (running /\ pc = "human_node" /\ resume # None /\ save_error = None
               /\ TrimFold(resume[1][1].content) = KwOk)
            => pc' = "single_saver_node"
         /\ (running /\ pc = "human_node" /\ resume # None /\ save_error # None)
            => pc' = IF \/ Contains(Lower(resume[1][1].content), KwRetry)
                        \/ Contains(Lower(resume[1][1].content), KwChongshi)
                     THEN "single_saver_node" ELSE "skipper_node" ]_vars

\* a phase with two drafts has ended after two decisions: the first draft
\* (evidence 1, 2, 3) was committed and the second (evidence 1) was skipped
C40_Witness ==
  /\ pc = "END" /\ ~running /\ Len(current_drafts) = 2 /\ active_index = 2
  /\ current_drafts[1].source_l1_ids = <<1, 2, 3>>
  /\ current_drafts[2].source_l1_ids = <<1>>
  /\ marks[3] = 1 /\ marks[1] = 1

====
